---- MODULE Spec2Model ----
(***************************************************************************)
(* Kaleidoscope front end: the lexer (src/src/lexer.rs) and the            *)
(* operator-precedence parser (src/src/parser.rs) with its shared,         *)
(* mutable precedence table.                                               *)
(*                                                                         *)
(* An input is a sequence of characters, each a one-character string.  A   *)
(* character occupies Utf8Len(c) bytes of the input str; the lexer counts  *)
(* characters in `pos` and slices the input by that count as a byte        *)
(* offset, so both views are modelled.                                     *)
(***************************************************************************)
EXTENDS Integers, Sequences, FiniteSets, TLC

(***************************************************************************)
(* Characters and their classes (char::is_whitespace, is_ascii_hexdigit,   *)
(* is_alphanumeric and the match arms of Lexer::token).                    *)
(***************************************************************************)
DigitChars == <<"0", "1", "2", "3", "4", "5", "6", "7", "8", "9">>

Digits == {DigitChars[i] : i \in 1..10}

HexLetters == {"a", "b", "c", "d", "e", "f", "A", "B", "C", "D", "E", "F"}

AsciiLetters ==
    {"a", "b", "c", "d", "e", "f", "g", "h", "i", "j", "k", "l", "m",
     "n", "o", "p", "q", "r", "s", "t", "u", "v", "w", "x", "y", "z",
     "A", "B", "C", "D", "E", "F", "G", "H", "I", "J", "K", "L", "M",
     "N", "O", "P", "Q", "R", "S", "T", "U", "V", "W", "X", "Y", "Z"}

\* Alphabetic characters outside ASCII (two UTF-8 bytes each).
NonAsciiLetters == {"é", "ß"}

\* Non-alphanumeric characters outside ASCII (three UTF-8 bytes each).
NonAsciiSymbols == {"→", "€"}

WhiteSpace == {" ", "\t", "\n", "\r"}

Alphanumeric == AsciiLetters \cup Digits \cup NonAsciiLetters

NumberStart == Digits \cup {"."}

NumberRest == Digits \cup HexLetters \cup {"."}

IdentStart == AsciiLetters \cup {"_"}

IdentRest == Alphanumeric \cup {"_"}

Utf8Len(c) ==
    IF c \in NonAsciiLetters THEN 2
    ELSE IF c \in NonAsciiSymbols THEN 3
    ELSE 1

(***************************************************************************)
(* Byte view of the input str.                                             *)
(***************************************************************************)
RECURSIVE ByteOff(_, _)
\* Byte offset at which character number i+1 of the input starts.
ByteOff(input, i) ==
    IF i = 0 THEN 0 ELSE ByteOff(input, i - 1) + Utf8Len(input[i])

ByteLen(input) == ByteOff(input, Len(input))

\* str::is_char_boundary
IsCharBoundary(input, b) ==
    \E j \in 0..Len(input) : ByteOff(input, j) = b

CharIndex(input, b) ==
    CHOOSE j \in 0..Len(input) : ByteOff(input, j) = b

\* &input[start..end] with byte offsets: panics unless both ends are
\* character boundaries within the str.
SliceOk(input, start, end) ==
    /\ start <= end
    /\ end <= ByteLen(input)
    /\ IsCharBoundary(input, start)
    /\ IsCharBoundary(input, end)

Slice(input, start, end) ==
    SubSeq(input, CharIndex(input, start) + 1, CharIndex(input, end))

RECURSIVE Str(_)
\* The text of a character sequence as one string.
Str(cs) == IF cs = <<>> THEN "" ELSE Head(cs) \o Str(Tail(cs))

(***************************************************************************)
(* Numbers.  An f64 literal value is kept exactly: the integer part in two *)
(* limbs (value = hi * Limb + lo) and the fractional digits without        *)
(* trailing zeros.                                                         *)
(***************************************************************************)
Limb == 256 * 256

DigitOf(c) == CHOOSE d \in 0..9 : DigitChars[d + 1] = c

RECURSIVE IntLimbs(_)
IntLimbs(ds) ==
    IF ds = <<>> THEN [hi |-> 0, lo |-> 0]
    ELSE LET p == IntLimbs(SubSeq(ds, 1, Len(ds) - 1))
             t == p.lo * 10 + DigitOf(ds[Len(ds)])
         IN  [hi |-> p.hi * 10 + t \div Limb, lo |-> t % Limb]

RECURSIVE StripZeros(_)
StripZeros(ds) ==
    IF ds # <<>> /\ ds[Len(ds)] = "0"
    THEN StripZeros(SubSeq(ds, 1, Len(ds) - 1))
    ELSE ds

RECURSIVE NatOf(_)
\* Value of a short digit sequence (an exponent).
NatOf(ds) ==
    IF ds = <<>> THEN 0
    ELSE NatOf(SubSeq(ds, 1, Len(ds) - 1)) * 10 + DigitOf(ds[Len(ds)])

Zeros(n) == [i \in 1..n |-> "0"]

NumVal(int, frac) ==
    LET l == IntLimbs(int)
    IN  [hi |-> l.hi, lo |-> l.lo, frac |-> [i \in 1..Len(StripZeros(frac)) |-> DigitOf(StripZeros(frac)[i])]]

\* The f64 of a small natural number.
Num(n) == [hi |-> n \div Limb, lo |-> n % Limb, frac |-> <<>>]

Zero == Num(0)

AllIn(cs, S) == \A i \in 1..Len(cs) : cs[i] \in S

IndexOf(cs, S) ==
    IF \E i \in 1..Len(cs) : cs[i] \in S
    THEN CHOOSE i \in 1..Len(cs) : cs[i] \in S /\ \A j \in 1..(i - 1) : cs[j] \notin S
    ELSE 0

\* <f64 as FromStr>::from_str on a slice that holds no sign (the lexer never
\* captures one), followed by unwrap_or_default: digits with an optional
\* point and an optional exponent, anything else is 0.0.
ParseF64(cs) ==
    LET e    == IndexOf(cs, {"e", "E"})
        mant == IF e = 0 THEN cs ELSE SubSeq(cs, 1, e - 1)
        expo == IF e = 0 THEN <<>> ELSE SubSeq(cs, e + 1, Len(cs))
        p    == IndexOf(mant, {"."})
        int  == IF p = 0 THEN mant ELSE SubSeq(mant, 1, p - 1)
        frac == IF p = 0 THEN <<>> ELSE SubSeq(mant, p + 1, Len(mant))
        ok   == /\ AllIn(int, Digits)
                /\ AllIn(frac, Digits)
                /\ Len(int) + Len(frac) > 0
                /\ AllIn(expo, Digits)
                /\ (e # 0 => expo # <<>>)
        x    == NatOf(expo)
    IN  IF ~ok THEN Zero
        ELSE IF x <= Len(frac)
             THEN NumVal(int \o SubSeq(frac, 1, x), SubSeq(frac, x + 1, Len(frac)))
             ELSE NumVal(int \o frac \o Zeros(x - Len(frac)), <<>>)

(***************************************************************************)
(* Tokens (src/src/token.rs).                                              *)
(***************************************************************************)
TBinary == [t |-> "Binary"]

TComma == [t |-> "Comma"]

TComment == [t |-> "Comment"]

TDef == [t |-> "Def"]

TEOF == [t |-> "EOF"]

TExtern == [t |-> "Extern"]

TIdent(s) == [t |-> "Ident", s |-> s]

TLParen == [t |-> "LParen"]

TNumber(v) == [t |-> "Number", v |-> v]

TOp(c) == [t |-> "Op", c |-> c]

TRParen == [t |-> "RParen"]

(***************************************************************************)
(* Lexer.  The peekable character iterator and `pos` advance together in   *)
(* Lexer::advance, so one character count `pos` stands for both; the       *)
(* slices use it as a byte offset, as the code does.                       *)
(***************************************************************************)
\* The loops of skip_whitespace, lex_number and lex_ident: the position after
\* the maximal run of characters of S that starts at pos.
RunEnd(input, pos, S) ==
    CHOOSE i \in pos..Len(input) :
        /\ \A j \in (pos + 1)..i : input[j] \in S
        /\ (i = Len(input) \/ input[i + 1] \notin S)

skip_whitespace(input, pos) == RunEnd(input, pos, WhiteSpace)

\* Consumes through the first '\n' or '\r', or to the end of the input.
lex_comment(input, pos) ==
    LET nl == {i \in (pos + 1)..Len(input) : input[i] \in {"\n", "\r"}}
    IN  [tok   |-> TComment,
         pos   |-> IF nl = {} THEN Len(input)
                   ELSE CHOOSE i \in nl : \A j \in nl : i <= j,
         panic |-> FALSE]

lex_number(input, pos, start) ==
    LET end == RunEnd(input, pos, NumberRest)
    IN  IF SliceOk(input, start, end)
        THEN [tok |-> TNumber(ParseF64(Slice(input, start, end))), pos |-> end, panic |-> FALSE]
        ELSE [tok |-> TEOF, pos |-> end, panic |-> TRUE]

\* Keyword without the "def" arm.
KeywordNoDef(text) ==
    IF text = "extern" THEN TExtern
    ELSE IF text = "binary" THEN TBinary
    ELSE TIdent(text)

Keyword(text) ==
    IF text = "def" THEN TDef
    ELSE IF text = "extern" THEN TExtern
    ELSE IF text = "binary" THEN TBinary
    ELSE TIdent(text)

lex_ident(input, pos, start) ==
    LET end == RunEnd(input, pos, IdentRest)
    IN  IF SliceOk(input, start, end)
        THEN [tok |-> Keyword(Str(Slice(input, start, end))), pos |-> end, panic |-> FALSE]
        ELSE [tok |-> TEOF, pos |-> end, panic |-> TRUE]

\* Lexer::token: the token, the new position, and whether the call panicked
\* (a slice of the input str that is not on character boundaries).
token(input, pos0) ==
    LET start == skip_whitespace(input, pos0)
    IN  IF start = Len(input)
        THEN [tok |-> TEOF, pos |-> start, panic |-> FALSE]
        ELSE LET ch  == input[start + 1]
                 pos == start + 1
             IN  IF ch = "(" THEN [tok |-> TLParen, pos |-> pos, panic |-> FALSE]
                 ELSE IF ch = ")" THEN [tok |-> TRParen, pos |-> pos, panic |-> FALSE]
                 ELSE IF ch = "," THEN [tok |-> TComma, pos |-> pos, panic |-> FALSE]
                 ELSE IF ch = "#" THEN lex_comment(input, pos)
                 ELSE IF ch \in NumberStart THEN lex_number(input, pos, start)
                 ELSE IF ch \in IdentStart THEN lex_ident(input, pos, start)
                 ELSE [tok |-> TOp(ch), pos |-> pos, panic |-> FALSE]

RECURSIVE Collect(_, _)
\* lexer.by_ref().collect(): Iterator::next until it returns None, which it
\* does on the EOF token.  A panic inside token() aborts the collection.
Collect(input, pos) ==
    LET r == token(input, pos)
    IN  IF r.panic THEN [tokens |-> <<>>, panic |-> TRUE]
        ELSE IF r.tok = TEOF THEN [tokens |-> <<>>, panic |-> FALSE]
        ELSE LET rest == Collect(input, r.pos)
             IN  [tokens |-> IF rest.panic THEN <<>> ELSE <<r.tok>> \o rest.tokens,
                  panic  |-> rest.panic]

(***************************************************************************)
(* AST (src/src/ast.rs).                                                   *)
(***************************************************************************)
ENumber(v) == [e |-> "Number", v |-> v]

EVariable(name) == [e |-> "Variable", name |-> name]

ECall(name, args) == [e |-> "Call", name |-> name, args |-> args]

EBinary(op, lhs, rhs) == [e |-> "Binary", op |-> op, lhs |-> lhs, rhs |-> rhs]

Prototype(name, args, is_op, prec) ==
    [name |-> name, args |-> args, is_op |-> is_op, prec |-> prec]

Some(x) == [some |-> TRUE, x |-> x]

None == [some |-> FALSE]

Function(proto, body, is_anon) ==
    [proto |-> proto, body |-> body, is_anon |-> is_anon]

FUNC_NAME == "anon"

(***************************************************************************)
(* Integer casts of parse_prototype: `prec as usize` of the f64 literal    *)
(* (truncation; the saturation at 2^64 is beyond the literals modelled)    *)
(* and `prec as i32` of that usize (its low 32 bits, two's complement).    *)
(***************************************************************************)
F64AsUsize(v) == [hi |-> v.hi, lo |-> v.lo]

UsizeAsI32(u) ==
    LET h == u.hi % Limb
    IN  IF h >= Limb \div 2 THEN (h - Limb) * Limb + u.lo ELSE h * Limb + u.lo

(***************************************************************************)
(* Precedence table: HashMap<char, i32>, a function on its key set.        *)
(***************************************************************************)
PrecGet(prec, op) == IF op \in DOMAIN prec THEN prec[op] ELSE -1

\* HashMap::entry(op).or_insert(n) in place of insert: an entry already
\* present is kept.
PrecInsertKeep(prec, op, n) ==
    [c \in DOMAIN prec \cup {op} |-> IF c = op /\ op \notin DOMAIN prec THEN n ELSE prec[c]]

PrecInsert(prec, op, n) ==
    [c \in DOMAIN prec \cup {op} |-> IF c = op THEN n ELSE prec[c]]

(***************************************************************************)
(* Parser.  Every operation takes the token buffer, the cursor and the     *)
(* table and returns an io::Result together with the cursor and the table  *)
(* it leaves behind.                                                       *)
(***************************************************************************)
Syntax == "InvalidData"

Eof == "UnexpectedEof"

NoVal == [e |-> "none"]

Ok(val, pos, prec) ==
    [ok |-> TRUE, val |-> val, kind |-> "none", msg |-> "", pos |-> pos, prec |-> prec]

\* Err(self.log_err(kind, msg))
log_err(kind, msg, pos, prec) ==
    [ok |-> FALSE, val |-> NoVal, kind |-> kind, msg |-> msg, pos |-> pos, prec |-> prec]

is_eof(toks, pos) == pos >= Len(toks)

current(toks, pos, prec) ==
    IF is_eof(toks, pos)
    THEN log_err(Eof, "Unexpected end of file.", pos, prec)
    ELSE Ok(toks[pos + 1], pos, prec)

advance(toks, pos, prec) ==
    IF ~is_eof(toks, pos + 1)
    THEN Ok(NoVal, pos + 1, prec)
    ELSE log_err(Eof, "Unexpected end of file.", pos + 1, prec)

tok_precedence(toks, pos, prec) ==
    LET c == current(toks, pos, prec)
    IN  IF c.ok /\ c.val.t = "Op" THEN PrecGet(prec, c.val.c) ELSE -1

RECURSIVE parse_expr(_, _, _)
RECURSIVE parse_paren_expr(_, _, _)
RECURSIVE call_args(_, _, _, _, _)
RECURSIVE parse_ident_expr(_, _, _)
RECURSIVE parse_primary(_, _, _)
RECURSIVE parse_unary_expr(_, _, _)
RECURSIVE parse_bin_expr(_, _, _, _, _)

\* parse_num_expr without its advance: the number is returned with the cursor
\* left on it.
parse_num_expr_stay(toks, pos, prec) ==
    LET c == current(toks, pos, prec)
    IN  IF ~c.ok THEN c
        ELSE IF c.val.t = "Number"
        THEN Ok(ENumber(c.val.v), pos, prec)
        ELSE log_err(Syntax, "expected number literal.", pos, prec)

parse_num_expr(toks, pos, prec) ==
    LET c == current(toks, pos, prec)
    IN  IF ~c.ok THEN c
        ELSE IF c.val.t = "Number"
        THEN LET a == advance(toks, pos, prec)
             IN  IF ~a.ok THEN a ELSE Ok(ENumber(c.val.v), a.pos, prec)
        ELSE log_err(Syntax, "expected number literal.", pos, prec)

\* parse_paren_expr from `let expr = self.parse_expr()?` on: x is what
\* parse_expr returned.
paren_close(toks, x) ==
    IF ~x.ok THEN x
    ELSE LET d == current(toks, x.pos, x.prec)
         IN  IF ~d.ok THEN d
             ELSE IF d.val.t # "RParen"
             THEN log_err(Syntax, "Expected ')' character at end of parenthesized expression.",
                          x.pos, x.prec)
             ELSE LET b == advance(toks, x.pos, x.prec)
                  IN  IF ~b.ok THEN b ELSE Ok(x.val, b.pos, b.prec)

parse_paren_expr(toks, pos, prec) ==
    LET c == current(toks, pos, prec)
    IN  IF ~c.ok THEN c
        ELSE IF c.val.t # "LParen"
        THEN log_err(Syntax, "Expected '(' character at start of parenthesized expression.", pos, prec)
        ELSE LET a == advance(toks, pos, prec)
             IN  IF ~a.ok THEN a ELSE paren_close(toks, parse_expr(toks, a.pos, prec))

\* One turn of the argument loop of parse_ident_expr after
\* `args.push(self.parse_expr()?)`: x is what parse_expr returned.
call_next(toks, ident, args, x) ==
    IF ~x.ok THEN x
    ELSE LET c == current(toks, x.pos, x.prec)
         IN  IF ~c.ok THEN c
             ELSE IF c.val.t = "Comma"
             THEN LET a == advance(toks, x.pos, x.prec)
                  IN  IF ~a.ok THEN a
                      ELSE call_args(toks, a.pos, a.prec, ident, Append(args, x.val))
             ELSE IF c.val.t = "RParen"
             THEN LET a == advance(toks, x.pos, x.prec)
                  IN  IF ~a.ok THEN a ELSE Ok(ECall(ident, Append(args, x.val)), a.pos, a.prec)
             ELSE log_err(Syntax, "Expected ',' character in function call.", x.pos, x.prec)

\* The argument loop of parse_ident_expr, entered with the cursor on the
\* first token of an argument.
call_args(toks, pos, prec, ident, args) ==
    call_next(toks, ident, args, parse_expr(toks, pos, prec))

\* parse_ident_expr reporting a Syntax error when nothing follows the '('.
parse_ident_expr_syntax(toks, pos, prec) ==
    LET c == current(toks, pos, prec)
    IN  IF ~c.ok THEN c
        ELSE IF c.val.t # "Ident" THEN log_err(Syntax, "Expected identifier", pos, prec)
        ELSE LET ident == c.val.s
                 a     == advance(toks, pos, prec)
             IN  IF ~a.ok THEN Ok(EVariable(ident), a.pos, prec)
                 ELSE IF toks[a.pos + 1].t # "LParen" THEN Ok(EVariable(ident), a.pos, prec)
                 ELSE LET b == advance(toks, a.pos, prec)
                      IN  IF ~b.ok
                          THEN log_err(Syntax, "Expected ')' character in function call.", b.pos, prec)
                          ELSE IF toks[b.pos + 1].t = "RParen"
                          THEN Ok(ECall(ident, <<>>), b.pos, prec)
                          ELSE call_args(toks, b.pos, prec, ident, <<>>)

parse_ident_expr(toks, pos, prec) ==
    LET c == current(toks, pos, prec)
    IN  IF ~c.ok THEN c
        ELSE IF c.val.t # "Ident" THEN log_err(Syntax, "Expected identifier", pos, prec)
        ELSE LET ident == c.val.s
                 a     == advance(toks, pos, prec)
             IN  IF ~a.ok THEN Ok(EVariable(ident), a.pos, prec)
                 ELSE IF toks[a.pos + 1].t # "LParen" THEN Ok(EVariable(ident), a.pos, prec)
                 ELSE LET b == advance(toks, a.pos, prec)
                      IN  IF ~b.ok THEN b
                          ELSE IF toks[b.pos + 1].t = "RParen"
                          THEN Ok(ECall(ident, <<>>), b.pos, prec)
                          ELSE call_args(toks, b.pos, prec, ident, <<>>)

parse_primary(toks, pos, prec) ==
    LET c == current(toks, pos, prec)
    IN  IF ~c.ok THEN c
        ELSE IF c.val.t = "Ident" THEN parse_ident_expr(toks, pos, prec)
        ELSE IF c.val.t = "Number" THEN parse_num_expr(toks, pos, prec)
        ELSE IF c.val.t = "LParen" THEN parse_paren_expr(toks, pos, prec)
        ELSE log_err(Syntax, "unknown token when expecting an expression", pos, prec)

\* unary_call with the operator character left out of the name.
unary_call_plain(op, u) ==
    IF ~u.ok THEN u ELSE Ok(ECall("unary", <<u.val>>), u.pos, u.prec)

\* The Call built around the operand u of a prefix operator.
unary_call(op, u) ==
    IF ~u.ok THEN u ELSE Ok(ECall("unary" \o op, <<u.val>>), u.pos, u.prec)

parse_unary_expr(toks, pos, prec) ==
    LET c == current(toks, pos, prec)
    IN  IF ~c.ok THEN c
        ELSE IF c.val.t = "Op"
        THEN LET a == advance(toks, pos, prec)
             IN  IF ~a.ok THEN a
                 ELSE unary_call(c.val.c, parse_unary_expr(toks, a.pos, a.prec))
        ELSE parse_primary(toks, pos, prec)

\* "Merge LHS/RHS" and the next turn of the loop: r is the right-hand side.
bin_merge(toks, min_prec, lhs, op, r) ==
    IF ~r.ok THEN r
    ELSE parse_bin_expr(toks, r.pos, r.prec, min_prec, EBinary(op, lhs, r.val))

\* bin_rhs with `curr_prec <= next_prec`: an operator of equal precedence
\* takes the right-hand side first.
bin_rhs_le(toks, min_prec, lhs, op, curr_prec, u) ==
    IF ~u.ok THEN u
    ELSE bin_merge(toks, min_prec, lhs, op,
                   IF curr_prec <= tok_precedence(toks, u.pos, u.prec)
                   THEN parse_bin_expr(toks, u.pos, u.prec, curr_prec, u.val)
                   ELSE u)

\* parse_bin_expr after `let mut rhs = self.parse_unary_expr()?`: u is what
\* parse_unary_expr returned.
bin_rhs(toks, min_prec, lhs, op, curr_prec, u) ==
    IF ~u.ok THEN u
    ELSE bin_merge(toks, min_prec, lhs, op,
                   IF curr_prec < tok_precedence(toks, u.pos, u.prec)
                   THEN parse_bin_expr(toks, u.pos, u.prec, curr_prec + 1, u.val)
                   ELSE u)

\* One turn of the loop of parse_bin_expr; the next turn is the call on the
\* merged left-hand side.
parse_bin_expr(toks, pos, prec, min_prec, lhs) ==
    LET curr_prec == tok_precedence(toks, pos, prec)
    IN  IF curr_prec < min_prec \/ is_eof(toks, pos) THEN Ok(lhs, pos, prec)
        ELSE IF toks[pos + 1].t # "Op" THEN log_err(Syntax, "Invalid operator.", pos, prec)
        ELSE LET a == advance(toks, pos, prec)
             IN  IF ~a.ok THEN a
                 ELSE bin_rhs(toks, min_prec, lhs, toks[pos + 1].c, curr_prec,
                              parse_unary_expr(toks, a.pos, a.prec))

\* parse_expr after parse_unary_expr returned l.
expr_rest(toks, l) ==
    IF ~l.ok THEN l ELSE parse_bin_expr(toks, l.pos, l.prec, 0, l.val)

parse_expr(toks, pos, prec) == expr_rest(toks, parse_unary_expr(toks, pos, prec))

\* proto_head that registers the name of an ordinary prototype too: its first
\* character goes into the table with precedence 0.
proto_head_any(toks, pos, prec) ==
    LET c == current(toks, pos, prec)
    IN  IF ~c.ok THEN c
        ELSE IF c.val.t = "Ident"
        THEN LET a == advance(toks, pos, prec)
             IN  IF ~a.ok THEN a
                 ELSE Ok([id |-> c.val.s, is_operator |-> FALSE, precedence |-> F64AsUsize(Zero)],
                         a.pos, PrecInsert(prec, "f", 0))
        ELSE IF c.val.t = "Binary"
        THEN LET a == advance(toks, pos, prec)
             IN  IF ~a.ok THEN a
                 ELSE IF toks[a.pos + 1].t # "Op"
                 THEN log_err(Syntax, "Expected operator in custom operator declaration.", a.pos, prec)
                 ELSE LET op == toks[a.pos + 1].c
                          b  == advance(toks, a.pos, prec)
                      IN  IF ~b.ok THEN b
                          ELSE LET isnum == toks[b.pos + 1].t = "Number"
                                   d     == IF isnum THEN advance(toks, b.pos, prec) ELSE b
                                   n     == IF isnum THEN F64AsUsize(toks[b.pos + 1].v)
                                            ELSE F64AsUsize(Zero)
                               IN  IF ~d.ok THEN d
                                   ELSE Ok([id |-> "binary" \o op, is_operator |-> TRUE, precedence |-> n],
                                           d.pos, PrecInsert(prec, op, UsizeAsI32(n)))
        ELSE log_err(Syntax, "Expected identifier in prototype declaration.", pos, prec)

\* The first match of parse_prototype: the name, the operator flag and the
\* declared precedence, carried in val; a `binary` head inserts into the table.
proto_head(toks, pos, prec) ==
    LET c == current(toks, pos, prec)
    IN  IF ~c.ok THEN c
        ELSE IF c.val.t = "Ident"
        THEN LET a == advance(toks, pos, prec)
             IN  IF ~a.ok THEN a
                 ELSE Ok([id |-> c.val.s, is_operator |-> FALSE, precedence |-> F64AsUsize(Zero)],
                         a.pos, prec)
        ELSE IF c.val.t = "Binary"
        THEN LET a == advance(toks, pos, prec)
             IN  IF ~a.ok THEN a
                 ELSE IF toks[a.pos + 1].t # "Op"
                 THEN log_err(Syntax, "Expected operator in custom operator declaration.", a.pos, prec)
                 ELSE LET op == toks[a.pos + 1].c
                          b  == advance(toks, a.pos, prec)
                      IN  IF ~b.ok THEN b
                          ELSE LET isnum == toks[b.pos + 1].t = "Number"
                                   d     == IF isnum THEN advance(toks, b.pos, prec) ELSE b
                                   n     == IF isnum THEN F64AsUsize(toks[b.pos + 1].v)
                                            ELSE F64AsUsize(Zero)
                               IN  IF ~d.ok THEN d
                                   ELSE Ok([id |-> "binary" \o op, is_operator |-> TRUE, precedence |-> n],
                                           d.pos, PrecInsert(prec, op, UsizeAsI32(n)))
        ELSE log_err(Syntax, "Expected identifier in prototype declaration.", pos, prec)

RECURSIVE proto_args(_, _, _, _, _)
\* proto_args with `self.advance()?` after the ')': the failed advance at the
\* end of the buffer becomes the prototype's error.
proto_args_strict(toks, pos, prec, head, args) ==
    LET c == current(toks, pos, prec)
    IN  IF ~c.ok THEN c
        ELSE IF c.val.t # "Ident"
        THEN log_err(Syntax, "Expected identifier in parameter declaration.", pos, prec)
        ELSE LET a == advance(toks, pos, prec)
             IN  IF ~a.ok THEN a
                 ELSE IF toks[a.pos + 1].t = "RParen"
                 THEN LET b == advance(toks, a.pos, prec)
                      IN  IF ~b.ok THEN b
                          ELSE Ok(Prototype(head.id, Append(args, c.val.s), head.is_operator, head.precedence),
                                  b.pos, prec)
                 ELSE IF toks[a.pos + 1].t = "Comma"
                 THEN proto_args(toks, a.pos + 1, prec, head, Append(args, c.val.s))
                 ELSE log_err(Syntax, "Expected ',' or ')' character in prototype declaration.",
                              a.pos, prec)

\* The parameter loop of parse_prototype, entered with the cursor where a
\* parameter name is expected.  `let _ = self.advance()` moves the cursor and
\* drops the result.
proto_args(toks, pos, prec, head, args) ==
    LET c == current(toks, pos, prec)
    IN  IF ~c.ok THEN c
        ELSE IF c.val.t # "Ident"
        THEN log_err(Syntax, "Expected identifier in parameter declaration.", pos, prec)
        ELSE LET a == advance(toks, pos, prec)
             IN  IF ~a.ok THEN a
                 ELSE IF toks[a.pos + 1].t = "RParen"
                 THEN Ok(Prototype(head.id, Append(args, c.val.s), head.is_operator, head.precedence),
                         a.pos + 1, prec)
                 ELSE IF toks[a.pos + 1].t = "Comma"
                 THEN proto_args(toks, a.pos + 1, prec, head, Append(args, c.val.s))
                 ELSE log_err(Syntax, "Expected ',' or ')' character in prototype declaration.",
                              a.pos, prec)

\* parse_prototype after its first match returned h.
proto_params(toks, h) ==
    IF ~h.ok THEN h
    ELSE LET c == current(toks, h.pos, h.prec)
         IN  IF ~c.ok THEN c
             ELSE IF c.val.t # "LParen"
             THEN log_err(Syntax, "Expected '(' character in prototype declaration.", h.pos, h.prec)
             ELSE LET a == advance(toks, h.pos, h.prec)
                  IN  IF ~a.ok THEN a
                      ELSE IF toks[a.pos + 1].t = "RParen"
                      THEN LET b == advance(toks, a.pos, a.prec)
                           IN  IF ~b.ok THEN b
                               ELSE Ok(Prototype(h.val.id, <<>>, h.val.is_operator, h.val.precedence),
                                       b.pos, b.prec)
                      ELSE proto_args(toks, a.pos, a.prec, h.val, <<>>)

\* The result r with the table put back to prec when r is an error.
restore_table(prec, r) == IF r.ok THEN r ELSE [r EXCEPT !.prec = prec]

\* parse_prototype that undoes its insert when the prototype fails.
parse_prototype_rollback(toks, pos, prec) ==
    restore_table(prec, proto_params(toks, proto_head(toks, pos, prec)))

parse_prototype(toks, pos, prec) == proto_params(toks, proto_head(toks, pos, prec))

\* The Function of a definition with prototype p and body b.
def_function(p, b) ==
    IF ~b.ok THEN b ELSE Ok(Function(p.val, Some(b.val), FALSE), b.pos, b.prec)

\* parse_definition after parse_prototype returned p.
def_body(toks, p) ==
    IF ~p.ok THEN p ELSE def_function(p, parse_expr(toks, p.pos, p.prec))

parse_definition(toks, pos, prec) == def_body(toks, parse_prototype(toks, pos + 1, prec))

\* extern_function that steps over one more token after the prototype.
extern_function_eat(p) ==
    IF ~p.ok THEN p ELSE Ok(Function(p.val, None, FALSE), p.pos + 1, p.prec)

\* parse_extern after parse_prototype returned p.
extern_function(p) ==
    IF ~p.ok THEN p ELSE Ok(Function(p.val, None, FALSE), p.pos, p.prec)

parse_extern(toks, pos, prec) == extern_function(parse_prototype(toks, pos + 1, prec))

\* parse_toplevel_expr after parse_expr returned x.
anon_function(x) ==
    IF ~x.ok THEN x
    ELSE Ok(Function(Prototype(FUNC_NAME, <<>>, FALSE, F64AsUsize(Zero)), Some(x.val), TRUE),
            x.pos, x.prec)

parse_toplevel_expr(toks, pos, prec) == anon_function(parse_expr(toks, pos, prec))

\* The leftover check of Parser::parse on the result of the dispatch.
parse_check(toks, result) ==
    IF result.ok /\ ~is_eof(toks, result.pos)
    THEN log_err(Eof, "Unexpected token after parsed expression.", result.pos, result.prec)
    ELSE result

\* Parser::parse: dispatch on the current token, then the leftover check.
parse(toks, pos, prec) ==
    LET c == current(toks, pos, prec)
    IN  IF ~c.ok THEN c
        ELSE parse_check(toks,
                         IF c.val.t = "Def" THEN parse_definition(toks, pos, prec)
                         ELSE IF c.val.t = "Extern" THEN parse_extern(toks, pos, prec)
                         ELSE parse_toplevel_expr(toks, pos, prec))

(***************************************************************************)
(* Inputs.                                                                 *)
(***************************************************************************)
\* Longest operand chain among the parser inputs.
MaxChain == 4

\* Longest generated lexer input, in characters.
MaxLexLen == 3

\* Calls of Lexer::token followed after the input is exhausted.
MaxEofCalls == 2

kw_def == <<"d", "e", "f">>

kw_extern == <<"e", "x", "t", "e", "r", "n">>

kw_binary == <<"b", "i", "n", "a", "r", "y">>

id_foo == <<"f", "o", "o">>

RECURSIVE Cat(_)
Cat(ws) == IF ws = <<>> THEN <<>> ELSE Head(ws) \o Cat(Tail(ws))

\* "def foo(a, b) a+b"
LexExample ==
    Cat(<<kw_def, <<" ">>, id_foo, <<"(", "a", ",", " ", "b", ")", " ", "a", "+", "b">>>>)

\* "def binary: 1 (a b) a+b"
DeclExample ==
    Cat(<<kw_def, <<" ">>, kw_binary, <<":", " ", "1", " ", "(", "a", " ", "b", ")", " ", "a", "+", "b">>>>)

IdLetters == <<"a", "b", "c", "d", "e", "f", "g", "h">>

\* The operand written at place i of a chain: a number literal or an identifier.
OperandAt(i) == {<<DigitChars[i + 1]>>, <<IdLetters[i]>>}

ChainOps == {"+", "-", "*", ":"}

\* `x p y q z` with every operand a number or an identifier.
Triples ==
    {Cat(<<x, <<p>>, y, <<q>>, z>>) :
        x \in OperandAt(1), y \in OperandAt(2), z \in OperandAt(3), p \in ChainOps, q \in ChainOps}

RECURSIVE NumChain(_)
\* Chains of n number literals 1, 2, .. separated by operators.
NumChain(n) ==
    IF n = 1 THEN {<<DigitChars[2]>>}
    ELSE {Cat(<<c, <<p>>, <<DigitChars[n + 1]>>>>) : c \in NumChain(n - 1), p \in ChainOps}

\* Chains of up to MaxChain operands; the last operand is a number or an identifier.
Chains ==
    UNION {{Cat(<<c, <<p>>, z>>) : c \in NumChain(n - 1), p \in ChainOps, z \in OperandAt(n)} :
              n \in 2..MaxChain}

UnaryOps == {"!", "-"}

UnaryInputs ==
    {Cat(<<u, x>>) : u \in {<<o>> : o \in UnaryOps} \cup {<<o1, o2>> : o1 \in UnaryOps, o2 \in UnaryOps},
                     x \in {<<"x">>, <<"1">>, <<"x", "+", "y">>, <<>>}}

Terminators == {<<>>, <<";">>}

ExprInputs ==
    {Cat(<<e, t>>) : e \in Triples \cup Chains \cup UnaryInputs \cup OperandAt(1), t \in Terminators}

\* Calls with an empty argument list, alone, as an operand and as an argument.
EmptyCalls ==
    {Cat(<<e, t>>) :
        e \in {<<"f", "(", ")">>, <<"f", "(", ")", "+", "x">>, <<"g", "(", "f", "(", ")", ")">>,
               <<"g", "(", "f", "(", "a", ")", ")">>, <<"f", "(", "a", ")", "+", "x">>},
        t \in Terminators}

CallInputs ==
    {Cat(<<id_foo, a>>) :
        a \in {<<"(">>, <<"(", ")">>, <<"(", "a">>, <<"(", "a", ")">>, <<"(", "a", ",">>,
               <<"(", "a", ",", "1", ")">>, <<"(", "a", " ", "b", ")">>, <<"(", "1", ")", ";">>}}
        \cup EmptyCalls

\* `( x p y ) q z` with every operand a number or an identifier.
ParenTriples ==
    {Cat(<<<<"(">>, x, <<p>>, y, <<")", q>>, z, t>>) :
        x \in OperandAt(1), y \in OperandAt(2), z \in OperandAt(3),
        p \in {"+", "*"}, q \in {"+", "*"}, t \in Terminators}

\* Parenthesised operands that end in a call or in a parenthesis.
ParenCalls ==
    {Cat(<<e, t>>) :
        e \in {<<"(", "f", "(", ")", ")">>, <<"(", "f", "(", "a", ")", ")">>, <<"(", "(", "a", ")", ")">>,
               <<"(", "a", "+", "f", "(", ")", ")", "*", "c">>},
        t \in Terminators}

ParenInputs ==
    {<<"(", "1", "+", "2", ")", "*", "3">>, <<"(", "1", "+", "2", ")", "*", "c">>,
     <<"(", "a", ")">>, <<"(", "a", ")", ";">>, <<"(", "a">>, <<"(", "a", " ", "b", ")">>, <<"(">>, <<")">>}
        \cup ParenTriples \cup ParenCalls

DeclPrecs == {<<>>, <<" ", "1">>, <<" ", "3", "0">>}

ParamLists ==
    {<<"(", ")">>, <<"(", "a", ")">>, <<"(", "a", " ", "b", ")">>, <<"(", "a", ",", " ", "b", ")">>,
     <<"(", "a", ",", " ", "a", ")">>, <<"(", "a", ",", ")">>, <<"(", "a", ",">>, <<"(", "1", ")">>, <<"(">>, <<>>}

Bodies == {<<>>, <<" ", "a", "+", "b">>, <<" ", "a", ":", "b">>, <<" ", "a", ":", "b", "+", "1", ";">>}

\* Prototype heads: an ordinary name, or `binary` with an operator and an
\* optional precedence.
Heads ==
    {id_foo} \cup {Cat(<<kw_binary, <<":">>, n>>) : n \in DeclPrecs} \cup {kw_binary, kw_binary \o <<" ", "a">>}

ProtoInputs ==
    {Cat(<<h, <<" ">>, ps>>) : h \in Heads, ps \in ParamLists}
        \cup {Cat(<<h, <<" ">>, ps, <<" ", "a", "+", "b">>>>) :
                  h \in Heads, ps \in {<<"(", "a", " ", "b", ")">>, <<"(", "a", ",", " ", "b", ")">>, <<"(", ")">>}}

DefInputs ==
    {Cat(<<k, <<" ">>, pr, b>>) : k \in {kw_def, kw_extern}, pr \in ProtoInputs, b \in Bodies}

\* "foo("
CallExample == id_foo \o <<"(">>

\* "def foo(a, a)"
DefExample == Cat(<<kw_def, <<" ">>, id_foo, <<"(", "a", ",", " ", "a", ")">>>>)

\* "binary: 1 (a b) a+b"
ProtoExample ==
    Cat(<<kw_binary, <<":", " ", "1", " ", "(", "a", " ", "b", ")", " ", "a", "+", "b">>>>)

\* Texts with a character of more than one byte.
NonAsciiInputs == {<<"é">>, <<"é", "a">>, <<"é", " ", "1">>, <<"a", "+", "é">>}

Inputs ==
    ExprInputs \cup CallInputs \cup ParenInputs \cup ProtoInputs \cup DefInputs \cup NonAsciiInputs
        \cup {LexExample, DeclExample, CallExample, DefExample, ProtoExample, <<>>, <<" ">>}

\* The parser inputs with the buffer Parser::new collects from each.
Lexed == [i \in Inputs |-> Collect(i, 0)]

\* Precedence literals of `binary` declarations, up to and beyond 2^31.
PrecLiterals ==
    {<<"0">>, <<"1">>, <<"3", "0">>, <<"1", ".", "5">>,
     <<"2", "1", "4", "7", "4", "8", "3", "6", "4", "7">>,
     <<"2", "1", "4", "7", "4", "8", "3", "6", "4", "8">>,
     <<"4", "2", "9", "4", "9", "6", "7", "2", "9", "5">>,
     <<"4", "2", "9", "4", "9", "6", "7", "2", "9", "7">>}

PrecOps == {":", "+"}

\* `binary <c> <n> (a, b)`, the definition `def binary <c> <n> (a, b) a <c> b`
\* and the expression `a <c> b;`.
PrecInputs ==
    {Cat(<<kw_binary, <<c, " ">>, n, <<" ", "(", "a", ",", " ", "b", ")">>>>) : c \in PrecOps, n \in PrecLiterals}
        \cup {Cat(<<kw_def, <<" ">>, kw_binary, <<c, " ">>, n, <<" ", "(", "a", ",", " ", "b", ")", " ", "a", c, "b">>>>) :
                  c \in PrecOps, n \in PrecLiterals}
        \cup {<<"a", c, "b", ";">> : c \in PrecOps}

LexedDecl == [i \in PrecInputs |-> Collect(i, 0)]

(***************************************************************************)
(* State.                                                                  *)
(*   prec      the session's precedence table, borrowed by each Parser     *)
(*   input, tokens, pos   the live Parser and the text it was built from   *)
(*   phase     "idle" (no Parser), "ready" (built), "done" (one operation  *)
(*             has returned), "panicked" (Parser::new aborted)             *)
(*   last      the operation called last, the cursor it started at and     *)
(*             what it returned                                            *)
(*   declared  history: for each operator, the precedence written in the   *)
(*             latest `binary` prototype head the parser went through, as  *)
(*             the unsigned integer the literal truncates to               *)
(*   lx_*      a Lexer used on its own: its input, its position, the       *)
(*             tokens returned by token(), the items yielded by next(),    *)
(*             whether next() has returned None, whether a call panicked   *)
(*   session   the read loop of main: "running", "exited" (break Ok(())),  *)
(*             "failed" (main returned Err), "panicked"                    *)
(*   nlines    the lines the read loop has read                            *)
(*   report    what the handler of the latest line printed                 *)
(***************************************************************************)
VARIABLES prec, input, tokens, pos, phase, last, declared,
          lx_input, lx_pos, lx_toks, lx_items, lx_done, lx_panic,
          session, nlines, report

pvars == <<prec, input, tokens, pos, phase, last, declared>>

lvars == <<lx_input, lx_pos, lx_toks, lx_items, lx_done, lx_panic>>

mvars == <<session, nlines, report>>

vars == <<prec, input, tokens, pos, phase, last, declared,
          lx_input, lx_pos, lx_toks, lx_items, lx_done, lx_panic,
          session, nlines, report>>

\* main.rs: the table the read loop seeds.
DefaultPrec ==
    [c \in {"=", "<", "+", "-", "*", "/"} |->
        IF c = "=" THEN 2 ELSE IF c = "<" THEN 10 ELSE IF c \in {"+", "-"} THEN 20 ELSE 40]

NoResult == Ok(NoVal, 0, DefaultPrec)

ParserInit ==
    /\ prec = DefaultPrec
    /\ input = <<>>
    /\ tokens = <<>>
    /\ pos = 0
    /\ phase = "idle"
    /\ last = [op |-> "none", start |-> 0, res |-> NoResult]
    /\ declared = [c \in {} |-> 0]

LexerIdle ==
    /\ lx_input = <<>>
    /\ lx_pos = 0
    /\ lx_toks = <<>>
    /\ lx_items = <<>>
    /\ lx_done = FALSE
    /\ lx_panic = FALSE

MainIdle ==
    /\ session = "running"
    /\ nlines = 0
    /\ report = "none"

Init == ParserInit /\ LexerIdle /\ MainIdle

\* Parser::new(input, &mut prec)
NewOver(lexed) ==
    /\ phase = "idle"
    /\ \E i \in DOMAIN lexed :
        /\ input' = i
        /\ tokens' = lexed[i].tokens
        /\ phase' = IF lexed[i].panic THEN "panicked" ELSE "ready"
    /\ pos' = 0
    /\ last' = [op |-> "new", start |-> 0, res |-> NoResult]
    /\ UNCHANGED <<prec, declared, lvars, mvars>>

New == NewOver(Lexed)

\* Parser::new on a declaration with a precedence literal, or on a use of
\* the declared operator.
NewDecl == NewOver(LexedDecl)

\* The Parser goes out of scope and gives the table back to the session.
Drop ==
    /\ phase = "done"
    /\ phase' = "idle"
    /\ input' = <<>>
    /\ tokens' = <<>>
    /\ pos' = 0
    /\ last' = [op |-> "none", start |-> 0, res |-> NoResult]
    /\ UNCHANGED <<prec, declared, lvars, mvars>>

\* The `binary <c> [n]` head at token s+1 of the buffer, when the buffer goes
\* on after it: the operator and the precedence it declares.
DeclAt(toks, s) ==
    IF /\ Len(toks) > s + 2
       /\ toks[s + 1] = TBinary
       /\ toks[s + 2].t = "Op"
       /\ (toks[s + 3].t = "Number" => Len(toks) > s + 3)
    THEN {[op |-> toks[s + 2].c,
           n  |-> IF toks[s + 3].t = "Number" THEN F64AsUsize(toks[s + 3].v) ELSE F64AsUsize(Zero)]}
    ELSE {}

Declare(d, decl) ==
    IF decl = {} THEN d
    ELSE LET x == CHOOSE y \in decl : TRUE
         IN  [c \in DOMAIN d \cup {x.op} |-> IF c = x.op THEN x.n ELSE d[c]]

\* One call of a parser operation on the live Parser: r is what it returns and
\* leaves behind, s the place of the prototype it goes through (-1: none).
Call(name, r, s) ==
    /\ phase = "ready"
    /\ phase' = "done"
    /\ pos' = r.pos
    /\ prec' = r.prec
    /\ last' = [op |-> name, start |-> pos, res |-> r]
    /\ declared' = IF s < 0 THEN declared ELSE Declare(declared, DeclAt(tokens, s))
    /\ UNCHANGED <<input, tokens, lvars, mvars>>

Current == Call("current", current(tokens, pos, prec), -1)

Advance == Call("advance", advance(tokens, pos, prec), -1)

ParseExpr == Call("parse_expr", parse_expr(tokens, pos, prec), -1)

ParsePrimary == Call("parse_primary", parse_primary(tokens, pos, prec), -1)

ParseUnaryExpr == Call("parse_unary_expr", parse_unary_expr(tokens, pos, prec), -1)

ParsePrototype == Call("parse_prototype", parse_prototype(tokens, pos, prec), pos)

ParseDefinition == Call("parse_definition", parse_definition(tokens, pos, prec), pos + 1)

ParseExtern == Call("parse_extern", parse_extern(tokens, pos, prec), pos + 1)

ParseToplevelExpr == Call("parse_toplevel_expr", parse_toplevel_expr(tokens, pos, prec), -1)

Parse ==
    Call("parse", parse(tokens, pos, prec),
         IF ~is_eof(tokens, pos) /\ tokens[pos + 1] \in {TDef, TExtern} THEN pos + 1 ELSE -1)

Next ==
    \/ New
    \/ Drop
    \/ Current
    \/ Advance
    \/ ParseExpr
    \/ ParsePrimary
    \/ ParseUnaryExpr
    \/ ParsePrototype
    \/ ParseDefinition
    \/ ParseExtern
    \/ ParseToplevelExpr
    \/ Parse

Spec == Init /\ [][Next]_vars

\* Parsers over one table given declarations with precedence literals.
NextDecl ==
    \/ NewDecl
    \/ Drop
    \/ ParsePrototype
    \/ ParseDefinition
    \/ ParseExpr

SpecDecl == Init /\ [][NextDecl]_vars

(***************************************************************************)
(* A Lexer on its own: Lexer::new on any short text, then calls of         *)
(* Lexer::token and Iterator::next.                                        *)
(***************************************************************************)
LexAlphabet == {"a", "b", "1", ".", "+", " ", "#", "é"}

RECURSIVE Texts(_)
\* Every text of n characters of the alphabet.
Texts(n) ==
    IF n = 0 THEN {<<>>}
    ELSE {Append(t, c) : t \in Texts(n - 1), c \in LexAlphabet}

\* Keywords and identifiers that begin or end like a keyword.
KeywordTexts ==
    {kw_def, kw_extern, kw_binary, kw_def \o <<"i", "n", "e">>, kw_def \o <<"_">>, <<"_">> \o kw_def,
     kw_def \o <<"1">>, kw_def \o <<" ">> \o kw_extern, kw_binary \o <<"+">>, <<"é", " ">> \o kw_def,
     <<"e", "x", "t", "e", "r">>}

LexInputs == UNION {Texts(n) : n \in 0..MaxLexLen} \cup {LexExample} \cup KeywordTexts

\* Lexer::new
LexInit ==
    /\ lx_input \in LexInputs
    /\ lx_pos = 0
    /\ lx_toks = <<>>
    /\ lx_items = <<>>
    /\ lx_done = FALSE
    /\ lx_panic = FALSE
    /\ ParserInit
    /\ MainIdle

EofCalls == Cardinality({i \in 1..Len(lx_toks) : lx_toks[i] = TEOF})

\* Lexer::token
LexToken ==
    /\ ~lx_panic
    /\ EofCalls < MaxEofCalls
    /\ LET r == token(lx_input, lx_pos)
       IN  /\ lx_pos' = r.pos
           /\ lx_panic' = r.panic
           /\ lx_toks' = IF r.panic THEN lx_toks ELSE Append(lx_toks, r.tok)
    /\ UNCHANGED <<lx_input, lx_items, lx_done, pvars, mvars>>

\* Iterator::next: None on the EOF token, Some(token) otherwise.
LexIterNext ==
    /\ ~lx_panic
    /\ LET r == token(lx_input, lx_pos)
       IN  /\ lx_pos' = r.pos
           /\ lx_panic' = r.panic
           /\ lx_done' = (~r.panic /\ r.tok = TEOF)
           /\ lx_items' = IF r.panic \/ r.tok = TEOF THEN lx_items ELSE Append(lx_items, r.tok)
    /\ UNCHANGED <<lx_input, lx_toks, pvars, mvars>>

NextLex == LexToken \/ LexIterNext

SpecLex == LexInit /\ [][NextLex]_vars

(***************************************************************************)
(* The read loop of main (src/src/main.rs): each iteration reads one line, *)
(* builds a table and a Parser over the line and dispatches on the first   *)
(* token.  After the iteration the state keeps what the Parser left:       *)
(* input, tokens, pos, prec (the table of that iteration) and last.        *)
(***************************************************************************)
\* Lines read in one session.
MaxLines == 3

kw_exit == <<"e", "x", "i", "t">>

kw_quit == <<"q", "u", "i", "t">>

\* The texts of the lines, each read with its line end; the empty text is
\* what read_line leaves at the end of the standard input.
Lines ==
    {l \o <<"\n">> :
        l \in {Cat(<<kw_def, <<" ">>, kw_binary, <<":", " ", "1", " ", "(", "a", ",", " ", "b", ")", " ", "a", ":", "b">>>>),
               Cat(<<kw_extern, <<" ">>, kw_binary, <<":", " ", "3", "0", " ", "(", "a", ",", " ", "b", ")">>>>),
               Cat(<<kw_extern, <<" ">>, id_foo, <<"(", "a", ")">>>>),
               Cat(<<kw_def, <<" ">>, id_foo, <<"(", "a", " ", "b", ")", " ", "a">>>>),
               kw_def, <<"a", ":", "b">>, <<"a", "+", "b">>, <<"1", "+">>, <<")">>, <<"#", "c">>,
               <<";">>, <<";", " ", "a">>, <<"a", ";">>, <<"é">>, <<"é", "a">>,
               <<>>, <<" ">>, kw_exit, kw_quit, kw_exit \o <<"e", "d">>, <<" ">> \o kw_exit}}
        \cup {<<>>}

StartsWith(cs, w) == Len(cs) >= Len(w) /\ SubSeq(cs, 1, Len(w)) = w

\* What one iteration leaves: whether the loop goes on, the operation called
\* on the Parser with its result, and the line printed by the handler.
Outcome(state, op, res, toks, msg) ==
    [session |-> state, op |-> op, res |-> res, tokens |-> toks, report |-> msg]

\* handle_definition after parse_definition returned r.
handle_definition(toks, r) ==
    Outcome("running", "parse_definition", r, toks,
            IF r.ok THEN "Parsed a function definition: " ELSE "Error in definition: ")

\* handle_extern after parse_extern returned r.
handle_extern(toks, r) ==
    Outcome("running", "parse_extern", r, toks,
            IF r.ok THEN "Parsed an extern: " ELSE "Error parsing extern: ")

\* handle_toplevel_expr after parse_toplevel_expr returned r.
handle_toplevel_expr(toks, r) ==
    Outcome("running", "parse_toplevel_expr", r, toks,
            IF r.ok THEN "Parsed a top-level expr" ELSE "Error: ")

\* The arm of a `;`: `parser.advance()?` returns from main when it fails.
skip_semicolon(toks, a) ==
    Outcome(IF a.ok THEN "running" ELSE "failed", "advance", a, toks, "none")

\* The match on the first token, the Parser at toks with a new table.
dispatch(toks, c) ==
    IF ~c.ok THEN Outcome("failed", "current", c, toks, "none")
    ELSE IF c.val = TEOF THEN Outcome("exited", "current", c, toks, "none")
    ELSE IF c.val = TOp(";") THEN skip_semicolon(toks, advance(toks, 0, DefaultPrec))
    ELSE IF c.val = TDef THEN handle_definition(toks, parse_definition(toks, 0, DefaultPrec))
    ELSE IF c.val = TExtern THEN handle_extern(toks, parse_extern(toks, 0, DefaultPrec))
    ELSE handle_toplevel_expr(toks, parse_toplevel_expr(toks, 0, DefaultPrec))

\* Parser::new over the line; its panic ends the process.
parse_line(lexed) ==
    IF lexed.panic THEN Outcome("panicked", "new", NoResult, <<>>, "none")
    ELSE dispatch(lexed.tokens, current(lexed.tokens, 0, DefaultPrec))

LexedLines == [l \in Lines |-> Collect(l, 0)]

\* The body of the loop on one line.
main(line) ==
    IF StartsWith(line, kw_exit) \/ StartsWith(line, kw_quit)
    THEN Outcome("exited", "none", NoResult, <<>>, "none")
    ELSE IF \A i \in 1..Len(line) : line[i] \in WhiteSpace
    THEN Outcome("running", "none", NoResult, <<>>, "none")
    ELSE parse_line(LexedLines[line])

\* One iteration of the loop with outcome o.
Iteration(line, o) ==
    /\ nlines' = nlines + 1
    /\ session' = o.session
    /\ report' = o.report
    /\ input' = line
    /\ tokens' = o.tokens
    /\ pos' = o.res.pos
    /\ last' = [op |-> o.op, start |-> 0, res |-> o.res]
    /\ phase' = IF o.op = "none" THEN "idle" ELSE IF o.op = "new" THEN "panicked" ELSE "done"
    /\ prec' = IF o.op = "none" THEN prec ELSE o.res.prec
    /\ declared' = IF o.op \in {"parse_definition", "parse_extern"}
                   THEN Declare(declared, DeclAt(o.tokens, 1))
                   ELSE declared
    /\ UNCHANGED lvars

ReadLine ==
    /\ session = "running"
    /\ nlines < MaxLines
    /\ \E line \in Lines : Iteration(line, main(line))

NextMain == ReadLine

SpecMain == Init /\ [][NextMain]_vars

(***************************************************************************)
(* Properties.                                                             *)
(***************************************************************************)
Done(op) == phase = "done" /\ last.op = op

\* The expression an operation returned: itself, or the body of the Function.
ExprOf(l) ==
    IF l.op \in {"parse", "parse_toplevel_expr", "parse_definition"}
    THEN l.res.val.body.x
    ELSE l.res.val

\* The expression a one-character operand stands for.
OperandExpr(w) ==
    IF w[1] \in Digits THEN ENumber(Num(DigitOf(w[1]))) ELSE EVariable(w[1])

Registered(c) == PrecGet(prec, c) >= 0

\* The table entry i and the unsigned integer u are the same number.
SameInteger(i, u) == i >= 0 /\ u = [hi |-> i \div Limb, lo |-> i % Limb]

\* C1: parsing the whole input `x p y q z`, operands numbers or identifiers
\* and prec(q) > prec(p), through parse_expr, parse_toplevel_expr or parse
\* returns Ok with Binary(p, x, Binary(q, y, z)); so does `1+2*3`.
C1_MixedPrecedenceWholeInput ==
    \A x \in OperandAt(1), y \in OperandAt(2), z \in OperandAt(3), p \in ChainOps, q \in ChainOps :
        (/\ phase = "done"
         /\ last.op \in {"parse_expr", "parse_toplevel_expr", "parse"}
         /\ input = Cat(<<x, <<p>>, y, <<q>>, z>>)
         /\ Registered(p)
         /\ PrecGet(prec, q) > PrecGet(prec, p))
        => /\ last.res.ok
           /\ ExprOf(last) = EBinary(p, OperandExpr(x), EBinary(q, OperandExpr(y), OperandExpr(z)))

\* The expression parsers called on a whole buffer.
ExprOps == {"parse_expr", "parse_toplevel_expr", "parse"}

\* The definition `def binary: <n> (a, b) a:b`, whose body uses the operator
\* its own prototype declares.
SelfUse(n) ==
    Cat(<<kw_def, <<" ">>, kw_binary, <<":">>, n, <<" ", "(", "a", ",", " ", "b", ")">>, <<" ", "a", ":", "b">>>>)

\* C2: once a `binary <c> [n]` prototype head has been processed, the table
\* maps c to n (0 without a number) and keeps doing so for every later parser
\* over the same table; an expression `x c y` parsed afterwards, in a later
\* parser or as the body of the declaring definition, is Binary(c, x, y).
C2_DeclaredOperatorIsInfix ==
    /\ \A c \in DOMAIN declared : c \in DOMAIN prec /\ SameInteger(prec[c], declared[c])
    /\ \A c \in DOMAIN declared, y \in OperandAt(2), t \in Terminators :
        (/\ phase = "done"
         /\ last.op \in ExprOps
         /\ input = Cat(<<<<"1">>, <<c>>, y, t>>)
         /\ (last.op = "parse" => t = <<>>)
         /\ (y[1] \in Digits => t # <<>>))
        => /\ last.res.ok
           /\ ExprOf(last) = EBinary(c, OperandExpr(<<"1">>), OperandExpr(y))
    /\ \A n \in DeclPrecs :
        (/\ phase = "done"
         /\ last.op \in {"parse_definition", "parse"}
         /\ input = SelfUse(n))
        => /\ last.res.ok
           /\ ExprOf(last) = EBinary(":", EVariable("a"), EVariable("b"))
           /\ ":" \in DOMAIN declared

\* `1:b` parsed by a parser built after the one that declared ':' with
\* precedence 1.
C2_Witness ==
    /\ Done("parse_expr")
    /\ input = <<"1", ":", "b">>
    /\ ":" \in DOMAIN declared
    /\ declared[":"] = F64AsUsize(Num(1))
    /\ last.res.ok

RECURSIVE Flatten(_)
\* The tokens of an operand-and-operator tree, left to right.
Flatten(x) ==
    IF x.e = "Binary" THEN Flatten(x.lhs) \o <<TOp(x.op)>> \o Flatten(x.rhs)
    ELSE IF x.e = "Number" THEN <<TNumber(x.v)>>
    ELSE IF x.e = "Variable" THEN <<TIdent(x.name)>>
    ELSE <<>>

RECURSIVE Grouped(_)
\* A right child that is a Binary binds strictly tighter than its parent, a
\* left child that is a Binary at least as tight.
Grouped(x) ==
    x.e = "Binary" =>
        /\ (x.rhs.e = "Binary" => PrecGet(prec, x.rhs.op) > PrecGet(prec, x.op))
        /\ (x.lhs.e = "Binary" => PrecGet(prec, x.lhs.op) >= PrecGet(prec, x.op))
        /\ Grouped(x.lhs)
        /\ Grouped(x.rhs)

\* The buffer without a closing `;`.
Sequence(toks) ==
    IF toks # <<>> /\ toks[Len(toks)] = TOp(";") THEN SubSeq(toks, 1, Len(toks) - 1) ELSE toks

\* Operands separated by registered operators, no parentheses.
IsOperandSequence(toks) ==
    /\ Len(toks) % 2 = 1
    /\ \A i \in 1..Len(toks) :
        IF i % 2 = 1 THEN toks[i].t \in {"Number", "Ident"}
        ELSE toks[i].t = "Op" /\ Registered(toks[i].c)

\* C3: when parse_expr returns Ok on a parenthesis-free sequence of operands
\* separated by registered operators, the tree holds the operands and
\* operators in input order, a Binary right child has strictly higher
\* precedence than its parent and a Binary left child at least the parent's;
\* an equal-precedence chain `x p y q z` is Binary(q, Binary(p, x, y), z).
C3_ClimbingGroupsByPrecedence ==
    (/\ phase = "done"
     /\ last.op \in {"parse_expr", "parse_toplevel_expr"}
     /\ last.res.ok
     /\ IsOperandSequence(Sequence(tokens)))
    => /\ Flatten(ExprOf(last)) = Sequence(tokens)
       /\ Grouped(ExprOf(last))
       /\ \A x \in OperandAt(1), y \in OperandAt(2), z \in OperandAt(3), p \in ChainOps, q \in ChainOps, t \in Terminators :
            (input = Cat(<<x, <<p>>, y, <<q>>, z, t>>) /\ PrecGet(prec, p) = PrecGet(prec, q))
            => ExprOf(last) = EBinary(q, EBinary(p, OperandExpr(x), OperandExpr(y)), OperandExpr(z))

\* `1-2-3;` parsed by parse_expr: Ok, left-nested, the cursor on the `;`.
C3_Witness ==
    /\ Done("parse_expr")
    /\ input = <<"1", "-", "2", "-", "3", ";">>
    /\ last.res.ok
    /\ last.res.pos = 5
    /\ last.res.val = EBinary("-", EBinary("-", ENumber(Num(1)), ENumber(Num(2))), ENumber(Num(3)))

\* C4: every call of Lexer::token returns a token and never aborts, also on
\* text with multi-byte characters, and once the input is exhausted the call
\* returns EOF, as does every later call.
C4_LexingNeverFails ==
    /\ ~lx_panic
    /\ \A i \in 1..Len(lx_toks) :
        lx_toks[i] = TEOF => \A j \in i..Len(lx_toks) : lx_toks[j] = TEOF
    /\ (lx_toks # <<>> /\ lx_toks[Len(lx_toks)] = TEOF)
        => skip_whitespace(lx_input, lx_pos) = Len(lx_input)

\* C5: an operation fails with UnexpectedEof only with the cursor at or past
\* the end of the buffer, and a failure with a token at the cursor is
\* InvalidData.
C5_ErrorKindsAsDefined ==
    (phase = "done" /\ ~last.res.ok)
    => /\ (last.res.kind = Eof => pos >= Len(tokens))
       /\ (pos < Len(tokens) => last.res.kind = Syntax)

ExampleTokens ==
    <<TDef, TIdent("foo"), TLParen, TIdent("a"), TComma, TIdent("b"), TRParen,
      TIdent("a"), TOp("+"), TIdent("b")>>

\* Only Lexer::token has been called, up to its first EOF.
TokenRunDone ==
    /\ lx_items = <<>>
    /\ ~lx_done
    /\ lx_toks # <<>>
    /\ lx_toks[Len(lx_toks)] = TEOF
    /\ EofCalls = 1

\* Only Iterator::next has been called, until it returned None: lx_items is
\* what collect() puts into the parser's buffer.
IterRunDone == lx_toks = <<>> /\ lx_done

\* C6 as stated: on "def foo(a, b) a+b" both the calls of token() and the
\* sequence collected into the parser's buffer are Def, Ident(foo), LParen,
\* Ident(a), Comma, Ident(b), RParen, Ident(a), Op(+), Ident(b), EOF.
C6_BufferEndsWithEOF ==
    lx_input = LexExample
    => /\ (TokenRunDone => lx_toks = ExampleTokens \o <<TEOF>>)
       /\ (IterRunDone => lx_items = ExampleTokens \o <<TEOF>>)

\* C6 amended: the calls of token() return that sequence ending with EOF; the
\* iterator, and with it the parser's buffer, holds the same tokens without
\* the EOF.
C6_TokenSequence ==
    lx_input = LexExample
    => /\ (TokenRunDone => lx_toks = ExampleTokens \o <<TEOF>>)
       /\ (IterRunDone => lx_items = ExampleTokens)

C6_Witness == lx_input = LexExample /\ IterRunDone /\ Len(lx_items) = Len(ExampleTokens)

\* C7: parse_prototype accepts parameters written one after another with no
\* separator: `binary: 1 (a b)` and `foo (a b)` followed by a body return Ok
\* with args [a, b], the name, the operator flag and the precedence.
C7_ParametersWithoutSeparator ==
    Done("parse_prototype")
    => /\ input = ProtoExample
            => /\ last.res.ok
               /\ last.res.val = Prototype("binary:", <<"a", "b">>, TRUE, F64AsUsize(Num(1)))
       /\ input = Cat(<<id_foo, <<" ", "(", "a", " ", "b", ")", " ", "a", "+", "b">>>>)
            => /\ last.res.ok
               /\ last.res.val = Prototype("foo", <<"a", "b">>, FALSE, F64AsUsize(Num(0)))

\* The parsers of an expression, called with the cursor on its first token.
OperandOps == ExprOps \cup {"parse_unary_expr", "parse_primary"}

\* C8 as stated: `foo(` parsed as an expression fails with InvalidData.
C8_CallWithoutCloseIsSyntax ==
    (phase = "done" /\ last.op \in OperandOps /\ input = CallExample)
    => ~last.res.ok /\ last.res.kind = Syntax

\* C8 amended: `foo(` parsed as an expression fails with UnexpectedEof, raised
\* by the advance past the '(' that ends the buffer.
C8_CallWithoutCloseIsEof ==
    (phase = "done" /\ last.op \in OperandOps /\ input = CallExample)
    => /\ ~last.res.ok
       /\ last.res.kind = Eof
       /\ last.res.msg = "Unexpected end of file."
       /\ pos = Len(tokens)

C8_Witness == Done("parse_expr") /\ input = CallExample /\ ~last.res.ok

\* C9: `def foo(a, a)` without a body fails with UnexpectedEof raised by the
\* body's parse_expr: the prototype is parsed to completion (foo, [a, a]),
\* the cursor then at the end of the buffer.
C9_MissingBodyIsEofAtBody ==
    (phase = "done" /\ last.op \in {"parse_definition", "parse"} /\ input = DefExample)
    => /\ ~last.res.ok
       /\ last.res.kind = Eof
       /\ pos = Len(tokens)
       /\ parse_prototype(tokens, 1, prec).ok
       /\ parse_prototype(tokens, 1, prec).val = Prototype("foo", <<"a", "a">>, FALSE, F64AsUsize(Num(0)))
       /\ parse_prototype(tokens, 1, prec).pos = Len(tokens)
       /\ ~parse_expr(tokens, Len(tokens), prec).ok
       /\ parse_expr(tokens, Len(tokens), prec).kind = Eof

C9_Witness == Done("parse_definition") /\ input = DefExample /\ ~last.res.ok

RECURSIVE Nest(_, _)
\* The prefix operators u applied to x, the first outermost.
Nest(u, x) ==
    IF u = <<>> THEN x ELSE ECall("unary" \o Head(u), <<Nest(Tail(u), x)>>)

Prefixes == {<<o>> : o \in UnaryOps} \cup {<<o1, o2>> : o1 \in UnaryOps, o2 \in UnaryOps}

\* C10: leading operator tokens are prefix applications whether or not the
\* character is a registered binary operator: k operators before an operand
\* give k nested Calls of "unary" + c with one argument each; `!x` is
\* Call("unary!", [Variable(x)]).
C10_LeadingOperatorIsUnary ==
    \A u \in Prefixes, t \in Terminators :
        /\ (phase = "done" /\ last.op \in {"parse_unary_expr", "parse_expr"} /\ input = Cat(<<u, <<"x">>, t>>))
            => last.res.ok /\ last.res.val = Nest(u, EVariable("x"))
        /\ (phase = "done" /\ last.op \in {"parse_unary_expr", "parse_expr"} /\ input = Cat(<<u, <<"1", ";">>>>))
            => last.res.ok /\ last.res.val = Nest(u, ENumber(Num(1)))
        /\ (Done("parse_unary_expr") /\ input = Cat(<<u, <<"x", "+", "y">>, t>>))
            => last.res.ok /\ last.res.val = Nest(u, EVariable("x"))
        /\ (Done("parse_expr") /\ input = Cat(<<u, <<"x", "+", "y">>, t>>))
            => last.res.ok /\ last.res.val = EBinary("+", Nest(u, EVariable("x")), EVariable("y"))

C10_Witness ==
    /\ Done("parse_unary_expr")
    /\ input = <<"-", "!", "x">>
    /\ last.res.ok
    /\ last.res.val = ECall("unary-", <<ECall("unary!", <<EVariable("x")>>)>>)

RECURSIVE CloseOf(_, _, _)
\* The place of the `)` that closes the parenthesis open at depth 0 before
\* token i (0: the buffer ends first).
CloseOf(toks, i, depth) ==
    IF i > Len(toks) THEN 0
    ELSE IF toks[i] = TLParen THEN CloseOf(toks, i + 1, depth + 1)
    ELSE IF toks[i] # TRParen THEN CloseOf(toks, i + 1, depth)
    ELSE IF depth = 1 THEN i
    ELSE CloseOf(toks, i + 1, depth - 1)

\* C11: a parenthesised sub-expression is one operand: when parse_paren_expr
\* (parse_primary on a `(`) returns Ok it has consumed the tokens from its
\* `(` to the matching `)`, and whenever parsing `( x p y ) q z` succeeds the
\* result is Binary(q, Binary(p, x, y), z), also when prec(q) > prec(p).
C11_ParenthesesOverride ==
    /\ (Done("parse_primary") /\ last.start = 0 /\ tokens # <<>> /\ tokens[1] = TLParen /\ last.res.ok)
        => pos = CloseOf(tokens, 1, 0)
    /\ \A x \in OperandAt(1), y \in OperandAt(2), z \in OperandAt(3), p \in {"+", "*"}, q \in {"+", "*"}, t \in Terminators :
        (/\ phase = "done"
         /\ last.op \in ExprOps
         /\ last.res.ok
         /\ input = Cat(<<<<"(">>, x, <<p>>, y, <<")", q>>, z, t>>))
        => ExprOf(last) = EBinary(q, EBinary(p, OperandExpr(x), OperandExpr(y)), OperandExpr(z))

\* The place of the prototype an operation goes through when called with the
\* cursor at s: parse_prototype starts on it, the others step over one token.
ProtoPlace(op, s) == IF op = "parse_prototype" THEN s ELSE s + 1

\* C12: the table is changed only by parsing a `binary` prototype: a step that
\* changes it is an operation going through a prototype whose head is
\* `binary <c>`, it changes at most the entry of c, and no step removes an
\* entry.
C12_TableChangedOnlyByBinaryPrototype ==
    [][/\ DOMAIN prec \subseteq DOMAIN prec'
       /\ prec' # prec =>
            /\ last'.op \in {"parse_prototype", "parse_definition", "parse_extern", "parse"}
            /\ Len(tokens) >= ProtoPlace(last'.op, pos) + 2
            /\ (last'.op = "parse" => tokens[pos + 1] \in {TDef, TExtern})
            /\ tokens[ProtoPlace(last'.op, pos) + 1] = TBinary
            /\ tokens[ProtoPlace(last'.op, pos) + 2].t = "Op"
            /\ DOMAIN prec' = DOMAIN prec \cup {tokens[ProtoPlace(last'.op, pos) + 2].c}
            /\ \A c \in DOMAIN prec :
                  c # tokens[ProtoPlace(last'.op, pos) + 2].c => prec'[c] = prec[c]]_vars

\* `extern binary: 30 (a, b)` has put ':' -> 30 into the table.
C12_Witness ==
    /\ Done("parse_extern")
    /\ tokens # <<>>
    /\ Len(tokens) > 3
    /\ tokens[2] = TBinary
    /\ tokens[3] = TOp(":")
    /\ tokens[4] = TNumber(Num(30))
    /\ last.res.ok
    /\ prec = PrecInsert(DefaultPrec, ":", 30)

\* The lines that end the loop.
IsExitLine(line) == StartsWith(line, kw_exit) \/ StartsWith(line, kw_quit)

\* C13: the table is created once per session: an operator declared by a
\* `binary` prototype on one line is registered with its declared precedence
\* in the table of every later line, so that `a:b` on a later line is
\* Binary(':', a, b).
C13_TablePersistsAcrossLines ==
    phase = "done"
    => /\ \A c \in DOMAIN declared : c \in DOMAIN prec /\ SameInteger(prec[c], declared[c])
       /\ (":" \in DOMAIN declared /\ input = <<"a", ":", "b", "\n">>)
            => /\ last.res.ok
               /\ ExprOf(last) = EBinary(":", EVariable("a"), EVariable("b"))

\* C14: no line other than exit/quit ends the session: after every line the
\* loop is running, a failure of the line's parse having been printed, or it
\* has ended on an exit/quit line.
C14_FailingLineKeepsSession ==
    /\ session \in {"running", "exited"}
    /\ session = "exited" => IsExitLine(input)
    /\ (session = "running" /\ phase = "done" /\ ~last.res.ok)
        => report \in {"Error in definition: ", "Error parsing extern: ", "Error: "}

\* `extern foo <params>`.
ExternInput(ps) == Cat(<<kw_extern, <<" ">>, id_foo, <<" ">>, ps>>)

\* Parameter lists of 0, 1 and 2 names with the args they declare.
ExternParams ==
    {[text |-> <<"(", ")">>, args |-> <<>>],
     [text |-> <<"(", "a", ")">>, args |-> <<"a">>],
     [text |-> <<"(", "a", ",", " ", "b", ")">>, args |-> <<"a", "b">>]}

\* C15: `extern foo ( p1, .., pn )` as the whole input is accepted for every
\* n >= 0: parse_extern and parse return Ok with the prototype foo, args
\* [p1..pn], no body and is_anon false.
C15_ExternAnyParameterCount ==
    \A ps \in ExternParams :
        (/\ phase = "done"
         /\ last.op \in {"parse_extern", "parse"}
         /\ input = ExternInput(ps.text))
        => /\ last.res.ok
           /\ last.res.val = Function(Prototype("foo", ps.args, FALSE, F64AsUsize(Zero)), None, FALSE)

\* C16: a call with an empty argument list consumes its `)`: when
\* parse_ident_expr (parse_primary on an identifier) returns Call(f, []) for
\* `f ( )` the cursor is past the `)`; `f()+x` is Binary('+', Call(f, []), x)
\* and `g(f())` is Call(g, [Call(f, [])]) with no token left over.
C16_EmptyCallConsumesClose ==
    /\ (/\ Done("parse_primary")
        /\ last.start = 0
        /\ Len(tokens) >= 3
        /\ tokens[1].t = "Ident"
        /\ tokens[2] = TLParen
        /\ tokens[3] = TRParen
        /\ last.res.ok)
        => last.res.val = ECall(tokens[1].s, <<>>) /\ pos = 3
    /\ \A t \in Terminators :
        (phase = "done" /\ last.op \in {"parse_expr", "parse_toplevel_expr"} /\ input = <<"f", "(", ")", "+", "x">> \o t)
        => /\ last.res.ok
           /\ ExprOf(last) = EBinary("+", ECall("f", <<>>), EVariable("x"))
    /\ (phase = "done" /\ last.op \in ExprOps /\ input = <<"g", "(", "f", "(", ")", ")">>)
        => /\ last.res.ok
           /\ ExprOf(last) = ECall("g", <<ECall("f", <<>>)>>)
           /\ pos = Len(tokens)

\* The maximal run of alphanumeric-or-underscore characters of the input
\* that begins at character s + 1.
IdentRun(text, s) == Str(SubSeq(text, s + 1, RunEnd(text, s + 1, IdentRest)))

\* The token of an identifier text: a keyword exactly for def, extern, binary.
IdentToken(text) ==
    IF text = "def" THEN TDef
    ELSE IF text = "extern" THEN TExtern
    ELSE IF text = "binary" THEN TBinary
    ELSE TIdent(text)

\* C17: wherever an identifier starts, the call of the lexer that reads it
\* returns the token of the maximal alphanumeric-or-underscore run from its
\* leading letter or `_`: a keyword if and only if the whole run is def,
\* extern or binary, else Ident with exactly that text.
C17_IdentifierIsMaximalRun ==
    [][(/\ skip_whitespace(lx_input, lx_pos) < Len(lx_input)
        /\ lx_input[skip_whitespace(lx_input, lx_pos) + 1] \in IdentStart)
       => /\ ~lx_panic'
          /\ \/ lx_toks' = Append(lx_toks, IdentToken(IdentRun(lx_input, skip_whitespace(lx_input, lx_pos))))
             \/ lx_items' = Append(lx_items, IdentToken(IdentRun(lx_input, skip_whitespace(lx_input, lx_pos))))]_vars

\* A sub-parser called with the cursor at s and returning r has stayed inside
\* the buffer, has not moved the cursor back, and has moved it forward if it
\* returned Ok.
Progress(toks, s, r) ==
    /\ r.ok \in BOOLEAN
    /\ r.pos >= s
    /\ r.pos <= Len(toks)
    /\ r.ok => r.pos > s

\* A call of Lexer::token at position p either is at the end of the text and
\* returns EOF, or consumes at least one character (or aborts).
LexProgress(text, p, r) ==
    r.panic \/ r.pos > p \/ (r.tok = TEOF /\ r.pos = Len(text))

\* C18: every parse call is bounded.  On every buffer Parser::new builds and
\* from every cursor position, the parsers that loops and recursive descent
\* go through (parse_expr, parse_unary_expr, parse_primary, parse_prototype)
\* return, with the cursor strictly advanced when they return Ok and never
\* moved back or past the end; each call of the lexer consumes a character or
\* returns EOF; and every entry point returns Ok or an error of one of the
\* two kinds.
C18_EveryParseCallReturns ==
    /\ phase = "ready" =>
        /\ \A p \in 0..Len(input) : LexProgress(input, p, token(input, p))
        /\ \A s \in 0..Len(tokens) :
            /\ Progress(tokens, s, parse_expr(tokens, s, prec))
            /\ Progress(tokens, s, parse_unary_expr(tokens, s, prec))
            /\ Progress(tokens, s, parse_primary(tokens, s, prec))
            /\ Progress(tokens, s, parse_prototype(tokens, s, prec))
    /\ phase = "done" =>
        /\ last.res.ok \in BOOLEAN
        /\ ~last.res.ok => last.res.kind \in {Syntax, Eof}
        /\ pos >= last.start
        /\ pos <= Len(tokens) + 1

\* parse() has returned Ok on "def foo(a, b) a+b", the cursor at the end.
C18_Witness ==
    /\ Done("parse")
    /\ input = LexExample
    /\ last.res.ok
    /\ pos = Len(tokens)
    /\ Len(tokens) = 10

\* C19: for every literal n of a `binary <c> n` declaration the precedence
\* in the returned Prototype is the integer of the literal, the table entry
\* of c is that same integer, and tok_precedence on c returns it, a
\* non-negative value, from then on; also for literals at or above 2^31.
C19_PrecedenceKeepsItsValue ==
    /\ (/\ Done("parse_prototype")
        /\ last.res.ok
        /\ last.res.val.is_op
        /\ tokens[3].t = "Number")
        => /\ last.res.val.prec = F64AsUsize(tokens[3].v)
           /\ tokens[2].c \in DOMAIN prec
           /\ SameInteger(prec[tokens[2].c], last.res.val.prec)
    /\ \A c \in DOMAIN declared :
        /\ tok_precedence(<<TOp(c)>>, 0, prec) >= 0
        /\ SameInteger(tok_precedence(<<TOp(c)>>, 0, prec), declared[c])

\* C20: over a call of parse() the cursor stays within 0..len(tokens) and
\* does not decrease, and the buffer is not modified.  The cursor moves by
\* single increments only, so it ends at most at len(tokens) exactly when no
\* increment started at or past the end; the buffer is read through
\* current() alone, which reads tokens[pos] only when pos < len(tokens).
C20_CursorStaysInBuffer ==
    [][(phase' = "done" /\ last'.op = "parse")
       => /\ tokens' = tokens
          /\ 0 <= pos
          /\ pos <= pos'
          /\ pos' <= Len(tokens)
          /\ last'.res.pos = pos']_vars

\* parse() has returned Ok on `extern foo (a)`, the cursor at the end.
C20_Witness ==
    /\ Done("parse")
    /\ input = ExternInput(<<"(", "a", ")">>)
    /\ last.res.ok
    /\ pos = Len(tokens)
    /\ Len(tokens) = 5

\* The table t with the entry of declaration d (operator and precedence).
WithEntry(t, d) == [c \in DOMAIN t \cup {d.op} |-> IF c = d.op THEN UsizeAsI32(d.n) ELSE t[c]]

\* C21: a failed declaration is not rolled back.  When parse_prototype,
\* parse_definition or parse_extern fails on a `binary <c> [n]` head that was
\* read up to a token after the operator character and after the number,
\* the table holds c -> n and is otherwise as before; when the failure
\* comes earlier the table is unchanged; and a later parser over the table
\* takes a declared c as an infix operator.
C21_FailedDeclarationStays ==
    [][/\ (/\ phase' = "done"
           /\ last'.op \in {"parse_prototype", "parse_definition", "parse_extern"}
           /\ ~last'.res.ok)
           => IF DeclAt(tokens, ProtoPlace(last'.op, pos)) = {}
              THEN prec' = prec
              ELSE /\ prec' = WithEntry(prec, CHOOSE d \in DeclAt(tokens, ProtoPlace(last'.op, pos)) : TRUE)
                   /\ tokens[ProtoPlace(last'.op, pos) + 2].c \in DOMAIN prec'
       /\ (/\ phase' = "done"
           /\ last'.op = "parse_expr"
           /\ input' = <<"1", ":", "b">>
           /\ ":" \in DOMAIN declared)
           => /\ last'.res.ok
              /\ last'.res.val = EBinary(":", ENumber(Num(1)), EVariable("b"))]_vars

\* `binary: 30 (` has failed after the insert: ':' -> 30 is in the table.
C21_Witness ==
    /\ Done("parse_prototype")
    /\ tokens = <<TBinary, TOp(":"), TNumber(Num(30)), TLParen>>
    /\ ~last.res.ok
    /\ ":" \in DOMAIN prec
    /\ prec[":"] = 30

====
